---------------------------- MODULE Spec2Model ----------------------------
(***************************************************************************)
(* Model of linearmodels/iv/_utility.py: the IV formula parser             *)
(* (IVFormulaParser), its patsy-backed accessors, and the two projection   *)
(* primitives proj and annihilate.                                         *)
(*                                                                         *)
(* Strings are sequences of one-character strings, so that strip, split,   *)
(* indexing and slicing are computed as Python computes them.              *)
(***************************************************************************)
EXTENDS Integers, Sequences, FiniteSets, TLC

VARIABLES
    pc,          \* "new" before __init__ runs, "ready" after it returns, "failed" after it raises
    formula,     \* self._formula
    eval_env,    \* self._eval_env
    components,  \* self._components
    raised,      \* the exception that left the last call (NoErr if it returned)
    out,         \* the value the last accessor call returned
    calls,       \* the dmatrix calls the last accessor call made: <<[expr, depth]>>
    op,          \* the last operation called
    configured,  \* the depth last configured by __init__ or the eval_env setter
    y,           \* proj/annihilate argument y (nobs by nseries)
    x,           \* proj/annihilate argument x (nobs by nvar)
    result,      \* the array the last proj/annihilate call returned
    pinvUsed     \* whether the last proj/annihilate call evaluated np.linalg.pinv

vars == <<pc, formula, eval_env, components, raised, out, calls, op,
          configured, y, x, result, pinvUsed>>

parserVars == <<pc, formula, eval_env, components, raised, out, calls, configured>>
projVars == <<y, x, result, pinvUsed>>

(***************************************************************************)
(* Bounds                                                                  *)
(***************************************************************************)
MaxLen == 4        \* every formula string of at most this length is tried
MaxDepth == 3      \* eval_env arguments range over DefaultEvalEnv..MaxDepth
MaxEnv == 5        \* data is not called once eval_env has drifted this far
MaxCols == 1       \* the evaluator returns frames of 0..MaxCols columns
MaxRows == 2       \* matrices have 1..MaxRows rows
MaxSeries == 1     \* y has 1..MaxSeries columns
MaxVars == 2       \* x has 0..MaxVars columns

DefaultEvalEnv == 2

(***************************************************************************)
(* Python string primitives                                                *)
(***************************************************************************)
Last(s) == s[Len(s)]
Front(s) == SubSeq(s, 1, Len(s) - 1)

RECURSIVE LStrip(_)
LStrip(s) == IF s # <<>> /\ Head(s) = " " THEN LStrip(Tail(s)) ELSE s

RECURSIVE RStrip(_)
RStrip(s) == IF s # <<>> /\ Last(s) = " " THEN RStrip(Front(s)) ELSE s

Strip(s) == RStrip(LStrip(s))

RECURSIVE Split(_, _)
Split(s, sep) ==
    IF s = <<>> THEN << <<>> >>
    ELSE LET rest == Split(Tail(s), sep)
         IN IF Head(s) = sep
            THEN << <<>> >> \o rest
            ELSE << <<Head(s)>> \o rest[1] >> \o Tail(rest)

Contains(s, c) == \E i \in 1..Len(s) : s[i] = c

(***************************************************************************)
(* Exceptions and return values                                            *)
(***************************************************************************)
NoErr == [kind |-> "none", rule |-> "none", echo |-> <<>>]
Raise(kind, rule, echo) == [kind |-> kind, rule |-> rule, echo |-> echo]

Zero == <<"0">>
ZeroPlus == <<"0", " ", "+", " ">>
NoComponents == <<>>

(***************************************************************************)
(* IVFormulaParser._parse                                                  *)
(***************************************************************************)
Components(dep, exog, endog, instr) ==
    [dependent |-> ZeroPlus \o dep, exog |-> exog, endog |-> endog, instruments |-> instr]

Parsed(comp) == [err |-> NoErr, comp |-> comp]
Failed(err) == [err |-> err, comp |-> NoComponents]

BlockShapeNoElse(n) == IF n = 2 THEN "ols" ELSE IF n >= 3 THEN "iv" ELSE "bad"
BlockShape(n) == IF n = 2 THEN "ols" ELSE IF n = 3 THEN "iv" ELSE "bad"

TwoBlocksPrefixed(blocks) ==
    Components(Strip(blocks[1]), ZeroPlus \o Strip(blocks[2]), Zero, Zero)
TwoBlocks(blocks) ==
    Components(Strip(blocks[1]), Strip(blocks[2]), Zero, Zero)

BracketsMissingAnd(b) == ~Contains(b[2], "[") /\ ~Contains(b[3], "]")
BracketsMissing(b) == ~Contains(b[2], "[") \/ ~Contains(b[3], "]")

PlusEdge(s) == s[1] = "+" \/ Last(s) = "+"

MergeExog(exog, exog2) ==
    LET joined == IF exog2 # <<>> THEN exog \o exog2 ELSE exog
        cut == IF joined # <<>>
               THEN (IF Last(joined) = "+" THEN Strip(Front(joined)) ELSE joined)
               ELSE joined
    IN IF cut = <<>> THEN Zero ELSE ZeroPlus \o cut

ThreeBlocks(blocks) ==
    LET b == [i \in 1..3 |-> Strip(blocks[i])]
    IN IF BracketsMissing(b)
       THEN Failed(Raise("ValueError", "brackets", <<>>))
       ELSE
       LET left == Split(b[2], "[")
           right == Split(b[3], "]")
       IN IF Len(left) # 2 \/ Len(right) # 2
          THEN Failed(Raise("ValueError", "unpack", <<>>))
          ELSE
          LET dep == Strip(b[1])
              exog == Strip(left[1])
              endog == Strip(left[2])
              instr == Strip(right[1])
              exog2 == Strip(right[2])
          IN IF endog = <<>> THEN Failed(Raise("IndexError", "index", <<>>))
             ELSE IF PlusEdge(endog)
                  THEN Failed(Raise("ValueError", "endogenous", <<endog>>))
             ELSE IF instr = <<>> THEN Failed(Raise("IndexError", "index", <<>>))
             ELSE IF PlusEdge(instr)
                  THEN Failed(Raise("ValueError", "instrument", <<instr>>))
             ELSE Parsed(Components(dep, MergeExog(exog, exog2), endog, instr))

Parse(f) ==
    LET blocks == Split(Strip(f), "~")
        shape == BlockShape(Len(blocks))
    IN IF shape = "ols" THEN Parsed(TwoBlocks(blocks))
       ELSE IF shape = "iv" THEN ThreeBlocks(blocks)
       ELSE Failed(Raise("ValueError", "separators", <<>>))


(***************************************************************************)
(* Formula strings tried by the parser specification: every string over    *)
(* Alphabet of length at most MaxLen, and every bracketed formula          *)
(* dep ~ pre [ endog ~ instr ] suf assembled from the fragment sets below. *)
(***************************************************************************)
Alphabet == {" ", "~", "[", "]", "+", "x", "z"}

ShortFormulas == UNION {[1..k -> Alphabet] : k \in 0..MaxLen}

DepFragments == {<<>>, <<"y">>, <<" ", "y", " ">>}
PreFragments == {<<>>, <<"x">>, <<"x", " ", "+", " ">>, <<"+">>, <<"x", "+", "+">>, <<"[", "x">>}
EndogFragments == {<<>>, <<" ">>, <<"x">>, <<"+", "x">>, <<"x", "+">>, <<" ", "x", "+", "z", " ">>}
InstrFragments == {<<>>, <<"z">>, <<"+", " ", "z">>, <<"z", " ", "+">>, <<"z", " ", "+", " ", "z">>}
SufFragments == {<<>>, <<"x">>, <<" ", "+", " ", "x">>, <<"+">>, <<"+", "x", "+">>, <<"]">>}

Bracketed(dep, pre, endog, instr, suf) ==
    dep \o <<"~">> \o pre \o <<"[">> \o endog \o <<"~">> \o instr \o <<"]">> \o suf

BracketedFormulas ==
    {Bracketed(d, p, e, i, s) : d \in DepFragments, p \in PreFragments,
        e \in EndogFragments, i \in InstrFragments, s \in SufFragments}

Formulas == ShortFormulas \cup BracketedFormulas

\* "y ~ x", "y ~ x + [x ~ z]" and "y ~ x + [x ~ z + z] + x"
EvalFormulas ==
    { <<"y", " ", "~", " ", "x">>,
      Bracketed(<<"y", " ">>, <<" ", "x", " ", "+", " ">>, <<"x", " ">>, <<" ", "z">>, <<>>),
      Bracketed(<<"y", " ">>, <<" ", "x", " ", "+", " ">>, <<"x", " ">>,
                <<" ", "z", " ", "+", " ", "z">>, <<" ", "+", " ", "x">>) }

Depths == DefaultEvalEnv..MaxDepth

(***************************************************************************)
(* Values returned by the evaluator (patsy.dmatrix) and by the accessors   *)
(***************************************************************************)
Frame(cols) == [present |-> TRUE, cols |-> cols]
None == [present |-> FALSE, cols |-> 0]
NoOut == <<>>

\* dmatrix is external: it either raises or returns a frame of some width
DmatrixResults == {[ok |-> FALSE, cols |-> 0]} \cup {[ok |-> TRUE, cols |-> c] : c \in 0..MaxCols}

EmptyCheck(arr) == IF arr.cols = 0 THEN None ELSE arr

Fields == <<"dependent", "exog", "endog", "instruments">>

\* the formula text each accessor hands to dmatrix
FieldExpr(comp, name) == IF name = "exog" THEN comp.exog ELSE ZeroPlus \o comp[name]

\* what each accessor returns from the frame dmatrix gave it
FieldValue(name, r) == IF name = "dependent" THEN Frame(r.cols) ELSE EmptyCheck(Frame(r.cols))

PatsyError == Raise("PatsyError", "evaluator", <<>>)

(***************************************************************************)
(* Matrices: exact rationals v[i][j] / den with a shape (rows, cols)       *)
(***************************************************************************)
Entries == {0, 1}

Matrix(n, p) == [shape : {<<n, p>>}, v : [1..n -> [1..p -> Entries]], den : {1}]

Rows(m) == m.shape[1]
Cols(m) == m.shape[2]

RECURSIVE SumSeq(_)
SumSeq(s) == IF s = <<>> THEN 0 ELSE Head(s) + SumSeq(Tail(s))

RECURSIVE ProdSeq(_)
ProdSeq(s) == IF s = <<>> THEN 1 ELSE Head(s) * ProdSeq(Tail(s))

Abs(a) == IF a < 0 THEN -a ELSE a

RECURSIVE Gcd(_, _)
Gcd(a, b) == IF b = 0 THEN Abs(a) ELSE Gcd(b, a % Abs(b))

RECURSIVE GcdSeq(_)
GcdSeq(s) == IF s = <<>> THEN 0 ELSE Gcd(Head(s), GcdSeq(Tail(s)))

Dot(u, w) == SumSeq([i \in 1..Len(u) |-> u[i] * w[i]])

Column(m, j) == [i \in 1..Rows(m) |-> m.v[i][j]]

ZerosLike(m) ==
    [shape |-> m.shape, v |-> [i \in 1..Rows(m) |-> [j \in 1..Cols(m) |-> 0]], den |-> 1]

\* sum over q in Q of (c.q)/(q.q) q, as numerators over the denominator ProdSeq of the q.q
ProjectNum(c, Q) ==
    LET D == ProdSeq([k \in 1..Len(Q) |-> Dot(Q[k], Q[k])])
    IN [i \in 1..Len(c) |->
           SumSeq([k \in 1..Len(Q) |-> Dot(c, Q[k]) * (D \div Dot(Q[k], Q[k])) * Q[k][i]])]

ProjectDen(Q) == ProdSeq([k \in 1..Len(Q) |-> Dot(Q[k], Q[k])])

\* an orthogonal basis of the span of the columns, in lowest integer terms
RECURSIVE Orthogonalise(_, _)
Orthogonalise(columns, Q) ==
    IF columns = <<>> THEN Q
    ELSE LET c == Head(columns)
             pn == ProjectNum(c, Q)
             r == [i \in 1..Len(c) |-> ProjectDen(Q) * c[i] - pn[i]]
             g == GcdSeq(r)
         IN Orthogonalise(Tail(columns),
                IF g = 0 THEN Q ELSE Append(Q, [i \in 1..Len(c) |-> r[i] \div g]))

\* x @ (np.linalg.pinv(x) @ y): x @ pinv(x) is the orthogonal projector on the columns of x
PinvProject(my, mx) ==
    LET Q == Orthogonalise([j \in 1..Cols(mx) |-> Column(mx, j)], <<>>)
        num == [j \in 1..Cols(my) |-> ProjectNum(Column(my, j), Q)]
    IN [shape |-> my.shape,
        v |-> [i \in 1..Rows(my) |-> [j \in 1..Cols(my) |-> num[j][i]]],
        den |-> ProjectDen(Q) * my.den]

MatSub(a, b) ==
    [shape |-> a.shape,
     v |-> [i \in 1..Rows(a) |-> [j \in 1..Cols(a) |-> a.v[i][j] * b.den - b.v[i][j] * a.den]],
     den |-> a.den * b.den]

MatEq(a, b) ==
    /\ a.shape = b.shape
    /\ \A i \in 1..Rows(a) : \A j \in 1..Cols(a) : a.v[i][j] * b.den = b.v[i][j] * a.den

\* out: the returned array; pinv: whether np.linalg.pinv was evaluated
projWrongWidth(my, mx) ==
    IF Cols(mx) = 1 THEN [out |-> ZerosLike(my), pinv |-> FALSE]
    ELSE [out |-> PinvProject(my, mx), pinv |-> TRUE]
proj(my, mx) ==
    IF Cols(mx) = 0 THEN [out |-> ZerosLike(my), pinv |-> FALSE]
    ELSE [out |-> PinvProject(my, mx), pinv |-> TRUE]

annihilate(my, mx) ==
    LET p == proj(my, mx) IN [out |-> MatSub(my, p.out), pinv |-> p.pinv]

NoMatrix == [shape |-> <<0, 0>>, v |-> <<>>, den |-> 1]

(***************************************************************************)
(* Parser specification: __init__ applied to each formula                  *)
(***************************************************************************)
ProjIdle ==
    /\ y = NoMatrix
    /\ x = NoMatrix
    /\ result = NoMatrix
    /\ pinvUsed = FALSE

Init ==
    /\ pc = "new"
    /\ formula \in Formulas
    /\ eval_env \in Depths
    /\ configured = eval_env
    /\ components = NoComponents
    /\ raised = NoErr
    /\ out = NoOut
    /\ calls = <<>>
    /\ op = "none"
    /\ ProjIdle

\* IVFormulaParser.__init__: stores the arguments and runs _parse
Construct ==
    /\ pc = "new"
    /\ LET r == Parse(formula)
       IN /\ pc' = IF r.err = NoErr THEN "ready" ELSE "failed"
          /\ components' = r.comp
          /\ raised' = r.err
    /\ op' = "init"
    /\ UNCHANGED <<formula, eval_env, configured, out, calls>>
    /\ UNCHANGED projVars

Next == Construct

Spec == Init /\ [][Next]_vars

(***************************************************************************)
(* Accessor specification: a constructed parser and its properties         *)
(***************************************************************************)
InitEval ==
    /\ pc = "ready"
    /\ formula \in EvalFormulas
    /\ eval_env \in Depths
    /\ configured = eval_env
    /\ components = Parse(formula).comp
    /\ raised = NoErr
    /\ out = NoOut
    /\ calls = <<>>
    /\ op = "init"
    /\ ProjIdle

\* one single-field property: one dmatrix call at the current depth
Access(name) ==
    /\ pc = "ready"
    /\ \E r \in DmatrixResults :
        /\ calls' = <<[expr |-> FieldExpr(components, name), depth |-> eval_env]>>
        /\ IF r.ok
           THEN out' = <<FieldValue(name, r)>> /\ raised' = NoErr
           ELSE out' = NoOut /\ raised' = PatsyError
    /\ op' = name
    /\ UNCHANGED <<pc, formula, eval_env, components, configured>>
    /\ UNCHANGED projVars

Dependent == Access("dependent")
Exog == Access("exog")
Endog == Access("endog")
Instruments == Access("instruments")

\* the index of the first field whose dmatrix call raises, 0 if none does
FirstFailure(rs) ==
    IF \A i \in 1..4 : rs[i].ok THEN 0
    ELSE CHOOSE i \in 1..4 : ~rs[i].ok /\ \A j \in 1..(i - 1) : rs[j].ok

\* the data property: bump the depth, evaluate the four fields in order, restore the depth
Data ==
    /\ pc = "ready"
    /\ eval_env < MaxEnv
    /\ \E rs \in [1..4 -> DmatrixResults] :
        LET bumped == eval_env + 1
            fail == FirstFailure(rs)
            made == IF fail = 0 THEN 4 ELSE fail
        IN /\ calls' = [i \in 1..made |->
                          [expr |-> FieldExpr(components, Fields[i]), depth |-> bumped]]
           /\ IF fail = 0
              THEN /\ out' = [i \in 1..4 |-> FieldValue(Fields[i], rs[i])]
                   /\ raised' = NoErr
                   /\ eval_env' = bumped - 1
              ELSE /\ out' = NoOut
                   /\ raised' = PatsyError
                   /\ eval_env' = bumped
    /\ op' = "data"
    /\ UNCHANGED <<pc, formula, components, configured>>
    /\ UNCHANGED projVars

\* the eval_env setter
SetEvalEnv ==
    /\ pc = "ready"
    /\ \E value \in Depths :
        /\ eval_env' = value
        /\ configured' = value
    /\ raised' = NoErr
    /\ out' = NoOut
    /\ calls' = <<>>
    /\ op' = "eval_env"
    /\ UNCHANGED <<pc, formula, components>>
    /\ UNCHANGED projVars

NextEval == Dependent \/ Exog \/ Endog \/ Instruments \/ Data \/ SetEvalEnv

SpecEval == InitEval /\ [][NextEval]_vars

(***************************************************************************)
(* Projector specification: proj and annihilate applied to each y, x       *)
(***************************************************************************)
ParserIdle ==
    /\ pc = "new"
    /\ formula = <<>>
    /\ eval_env = DefaultEvalEnv
    /\ configured = DefaultEvalEnv
    /\ components = NoComponents
    /\ raised = NoErr
    /\ out = NoOut
    /\ calls = <<>>

InitProj ==
    /\ ParserIdle
    /\ op = "none"
    /\ \E n \in 1..MaxRows :
        /\ y \in UNION {Matrix(n, p) : p \in 1..MaxSeries}
        /\ x \in UNION {Matrix(n, k) : k \in 0..MaxVars}
    /\ result = NoMatrix
    /\ pinvUsed = FALSE

CallProj ==
    /\ LET p == proj(y, x)
       IN result' = p.out /\ pinvUsed' = p.pinv
    /\ op' = "proj"
    /\ UNCHANGED <<y, x>>
    /\ UNCHANGED parserVars

CallAnnihilate ==
    /\ LET a == annihilate(y, x)
       IN result' = a.out /\ pinvUsed' = a.pinv
    /\ op' = "annihilate"
    /\ UNCHANGED <<y, x>>
    /\ UNCHANGED parserVars

NextProj == CallProj \/ CallAnnihilate

SpecProj == InitProj /\ [][NextProj]_vars


(***************************************************************************)
(* The formula text as the claims describe it, read off the input string   *)
(* by position rather than by the parser's own splitting                   *)
(***************************************************************************)
Count(s, c) == Cardinality({i \in 1..Len(s) : s[i] = c})

\* the index of the n-th occurrence of c in s
Nth(s, c, n) == CHOOSE i \in 1..Len(s) : s[i] = c /\ Count(SubSeq(s, 1, i), c) = n

Before(s, i) == SubSeq(s, 1, i - 1)
After(s, i) == SubSeq(s, i + 1, Len(s))
Between(s, i, j) == SubSeq(s, i + 1, j - 1)

Separators == Count(formula, "~")

\* with exactly two separators: the piece between them and the piece after the second
MiddlePiece == Between(formula, Nth(formula, "~", 1), Nth(formula, "~", 2))
LastPiece == After(formula, Nth(formula, "~", 2))

ProperlyBracketed ==
    /\ Separators = 2
    /\ Count(MiddlePiece, "[") = 1
    /\ Count(LastPiece, "]") = 1

DepText == Strip(Before(formula, Nth(formula, "~", 1)))
PrefixText == Strip(Before(MiddlePiece, Nth(MiddlePiece, "[", 1)))
EndogText == Strip(After(MiddlePiece, Nth(MiddlePiece, "[", 1)))
InstrText == Strip(Before(LastPiece, Nth(LastPiece, "]", 1)))
SuffixText == Strip(After(LastPiece, Nth(LastPiece, "]", 1)))

StartsOrEndsWithPlus(s) == s # <<>> /\ (Head(s) = "+" \/ s[Len(s)] = "+")

\* two + signs with nothing but blanks between them
DoubledPlus(s) ==
    \E i \in 1..Len(s) : \E j \in (i + 1)..Len(s) :
        /\ s[i] = "+"
        /\ s[j] = "+"
        /\ \A k \in (i + 1)..(j - 1) : s[k] = " "

\* a non-empty list of terms with no + at its start, none doubled, none at its end
Tidy(s) == s # <<>> /\ ~StartsOrEndsWithPlus(s) /\ ~DoubledPlus(s)

IsSubstring(t, s) == \E i \in 0..(Len(s) - Len(t)) : SubSeq(s, i + 1, i + Len(t)) = t

IsStructuralError(e) ==
    /\ e.kind = "ValueError"
    /\ e.rule \in {"separators", "brackets", "endogenous", "instrument"}

(***************************************************************************)
(* Claims about construction (specification Spec)                          *)
(***************************************************************************)

\* C1: a formula with exactly one ~ is accepted; dependent is "0 + " followed by
\* the trimmed text left of ~, exog is the trimmed text right of ~ with nothing
\* added, and endog and instruments are both "0".
C1_OneSeparator ==
    (pc # "new" /\ Separators = 1) =>
        /\ pc = "ready"
        /\ raised = NoErr
        /\ components =
             [dependent |-> <<"0", " ", "+", " ">> \o Strip(Before(formula, Nth(formula, "~", 1))),
              exog |-> Strip(After(formula, Nth(formula, "~", 1))),
              endog |-> <<"0">>,
              instruments |-> <<"0">>]

C1_Witness ==
    /\ pc = "ready"
    /\ Separators = 1
    /\ formula = <<" ", "x", "~", "z">>
    /\ components.exog = <<"z">>

\* C2: for dep ~ prefix + [endog ~ instr] + suffix with non-empty prefix and
\* suffix, exog holds the terms of both with no + at its start, no doubled +
\* at the join and no + at its end; endog and instruments are the trimmed
\* texts inside the brackets.
C2_Shape ==
    /\ ProperlyBracketed
    /\ Tidy(DepText)
    /\ PrefixText # <<>> /\ PrefixText[Len(PrefixText)] = "+"
    /\ Tidy(Strip(Front(PrefixText)))
    /\ SuffixText # <<>> /\ Head(SuffixText) = "+"
    /\ Tidy(Strip(Tail(SuffixText)))
    /\ Tidy(EndogText)
    /\ Tidy(InstrText)

C2_MergedExog ==
    (pc # "new" /\ Separators = 2 /\ C2_Shape) =>
        /\ pc = "ready"
        /\ Tidy(components.exog)
        /\ IsSubstring(Strip(Front(PrefixText)), components.exog)
        /\ IsSubstring(Strip(Tail(SuffixText)), components.exog)
        /\ components.endog = EndogText
        /\ components.instruments = InstrText

\* C3: with two ~ and a properly bracketed block, an endogenous or instrument
\* block that starts or ends with + is rejected with the structural error that
\* names that block and echoes it.
C3_PlusRejected ==
    (pc # "new" /\ Separators = 2 /\ ProperlyBracketed
        /\ (StartsOrEndsWithPlus(EndogText) \/ StartsOrEndsWithPlus(InstrText))) =>
        /\ pc = "failed"
        /\ components = NoComponents
        /\ \/ /\ StartsOrEndsWithPlus(EndogText)
              /\ raised = Raise("ValueError", "endogenous", <<EndogText>>)
           \/ /\ StartsOrEndsWithPlus(InstrText)
              /\ raised = Raise("ValueError", "instrument", <<InstrText>>)

\* C4: a formula whose number of ~ is neither 1 nor 2 is rejected with the
\* separator-count error, whatever brackets or + it contains.
C4_SeparatorCount ==
    (pc # "new" /\ Separators \notin {1, 2}) =>
        /\ pc = "failed"
        /\ raised = Raise("ValueError", "separators", <<>>)
        /\ components = NoComponents

C4_Witness ==
    /\ pc = "failed"
    /\ Separators = 3
    /\ Count(formula, "[") = 1
    /\ Count(formula, "+") = 0
    /\ raised.rule = "separators"

\* C5: with two ~, a middle piece without [ or a last piece without ] is
\* rejected with the bracket-delimiter error, also when a block would fail
\* the + checks.
C5_BracketsFirst ==
    (pc # "new" /\ Separators = 2
        /\ (~Contains(MiddlePiece, "[") \/ ~Contains(LastPiece, "]"))) =>
        /\ pc = "failed"
        /\ raised = Raise("ValueError", "brackets", <<>>)
        /\ components = NoComponents

C5_Witness ==
    /\ pc = "failed"
    /\ Separators = 2
    /\ Count(MiddlePiece, "[") = 1
    /\ StartsOrEndsWithPlus(EndogText)
    /\ ~Contains(LastPiece, "]")
    /\ raised.rule = "brackets"

\* C6: construction either succeeds with all four components set or fails
\* with a ValueError naming the rule violated (separator count, missing
\* bracket, leading or trailing + in a named block); nothing else happens.
C6_TwoOutcomes ==
    pc # "new" =>
        \/ /\ pc = "ready"
           /\ raised = NoErr
           /\ DOMAIN components = {"dependent", "exog", "endog", "instruments"}
        \/ /\ pc = "failed"
           /\ IsStructuralError(raised)

\* C8: the dependent component of an accepted formula always names a term
\* after its "0 + " prefix.
C8_DependentNamesTerm ==
    pc = "ready" =>
        /\ Len(components.dependent) > 4
        /\ SubSeq(components.dependent, 1, 4) = <<"0", " ", "+", " ">>
        /\ Strip(SubSeq(components.dependent, 5, Len(components.dependent))) # <<>>

(***************************************************************************)
(* Claims about evaluation (specification SpecEval)                        *)
(***************************************************************************)

\* C7: an evaluator failure leaves an accessor wrapped with the four raw
\* sub-expression strings, never bare.
C7_EvaluatorErrorWrapped ==
    raised.kind = "PatsyError" =>
        raised.echo = <<components.dependent, components.exog,
                        components.endog, components.instruments>>

\* C10: data evaluates every field at the configured depth plus one, and after
\* any call, returned or aborted, eval_env is the configured depth and the
\* components are unchanged.
C10_DepthRestored ==
    pc = "ready" =>
        /\ op = "data" => \A i \in 1..Len(calls) : calls[i].depth = configured + 1
        /\ eval_env = configured
        /\ components = Parse(formula).comp

(***************************************************************************)
(* Claims about projection (specification SpecProj)                        *)
(***************************************************************************)

\* C9: with a zero-column x, proj returns zeros of y's shape without
\* evaluating the pseudo-inverse and annihilate returns y; y and x are never
\* modified.
C9_AfterCall ==
    (Cols(x) = 0 /\ op \in {"proj", "annihilate"}) =>
        /\ ~pinvUsed
        /\ result.shape = y.shape
        /\ op = "proj" =>
             \A i \in 1..Rows(y) : \A j \in 1..Cols(y) : result.v[i][j] = 0
        /\ op = "annihilate" => MatEq(result, y)

C9_ZeroColumns == [](C9_AfterCall) /\ [][y' = y /\ x' = x]_vars

C9_Witness ==
    /\ op = "annihilate"
    /\ Cols(x) = 0
    /\ Rows(y) = 2
    /\ y.v = <<<<1>>, <<0>>>>
    /\ result.v = <<<<1>>, <<0>>>>
    /\ result.den = 1

=============================================================================
